---- MODULE Spec2Model ----
(***************************************************************************)
(* Consumer-side relay of cross-chain validation: ingestion of validator   *)
(* set change (VSC) packets, the pending packet queue with head-of-line    *)
(* blocking for slash packets, and the acknowledgement handler.            *)
(* Model of x/ccv/consumer/keeper/relay.go (src/unnamed/part_001).         *)
(***************************************************************************)
EXTENDS Integers, Sequences, FiniteSets, TLC

\* ------------------------------------------------------------------ bounds
\* total number of packets ever appended to the pending queue
MaxPackets == 3
\* last block height the scheduler reaches
MaxHeight == 1

\* ------------------------------------------------------------ value sets
Validators == {"V1", "V2"}
Channels == {"channel-0", "channel-1"}
NoChannel == "none"
EmptyIdentity == ""

VscMaturedPacket == "VscMaturedPacket"
SlashPacket == "SlashPacket"

Downtime == "INFRACTION_DOWNTIME"
DoubleSign == "INFRACTION_DOUBLE_SIGN"
Infractions == {Downtime, DoubleSign}

\* acknowledgement result bytes
V1Result == "V1Result"
SlashPacketHandledResult == "SlashPacketHandledResult"
SlashPacketBouncedResult == "SlashPacketBouncedResult"
UnknownResult == "UnknownResult"

\* slash record states
Idle == "Idle"
WaitingForReply == "WaitingForReply"
WaitingForBackoffAfterBounce == "WaitingForBackoffAfterBounce"

\* outcomes of the transport send
SendOk == "ok"
ErrClientNotActive == "ErrClientNotActive"
ErrSendFailed == "ErrSendFailed"
SendOutcomes == {SendOk, ErrClientNotActive, ErrSendFailed}

VARIABLES
    providerChannel,      \* ChannelBinding: NoChannel or the bound channel id
    pendingChanges,       \* PendingValidatorSetChange: sequence of [id, power]
    heightToVscId,        \* HeightToUpdateId: height -> update id (0 = unset)
    outstandingDowntime,  \* set of validator identities
    pendingPackets,       \* PendingPacketQueue: sequence of entries
    pendingPacketsIdx,    \* next index handed out by AppendPendingPacket
    slashRecord,          \* [state, sendTime]
    blockHeight,          \* ctx.BlockHeight(); block time is one unit per block
    events,               \* [established, slashRequest]: emitted event counts
    sentLog,              \* [idx, type] of every packet handed to the transport, in order
    inflight,             \* [seq, idx, type] of packets sent and not yet acknowledged
    closeInits,           \* channels on which ChanCloseInit was called
    firstSeen,            \* history: identities in order of first accepted appearance
    latestPower           \* history: identity -> power of the last accepted batch naming it

vars == <<providerChannel, pendingChanges, heightToVscId, outstandingDowntime,
          pendingPackets, pendingPacketsIdx, slashRecord, blockHeight, events,
          sentLog, inflight, closeInits, firstSeen, latestPower>>

accumVars == <<pendingChanges, heightToVscId, firstSeen, latestPower>>
queueVars == <<pendingPackets, pendingPacketsIdx, slashRecord, sentLog, inflight>>

Heights == 0..(MaxHeight + 1)

Init ==
    /\ providerChannel = NoChannel
    /\ pendingChanges = <<>>
    /\ heightToVscId = [h \in Heights |-> 0]
    /\ outstandingDowntime = {}
    /\ pendingPackets = <<>>
    /\ pendingPacketsIdx = 0
    /\ slashRecord = [state |-> Idle, sendTime |-> 0]
    /\ blockHeight = 0
    /\ events = [established |-> 0, slashRequest |-> 0]
    /\ sentLog = <<>>
    /\ inflight = {}
    /\ closeInits = {}
    /\ firstSeen = <<>>
    /\ latestPower = [v \in Validators |-> 0]

Range(seq) == {seq[i] : i \in 1..Len(seq)}

\* ------------------------------------------------------- keeper helpers
\* delay, in block-time units, before a bounced slash packet may be resent
RetryDelayPeriod == 1

\* ctx.BlockTime(): one time unit per block
BlockTime(height) == height

\* a batch is malformed when it names an empty identity or names one twice
Validate(newChanges) ==
    LET ups == newChanges.ValidatorUpdates IN
    /\ \A i \in 1..Len(ups) : ups[i].id # EmptyIdentity
    /\ \A i, j \in 1..Len(ups) : ups[i].id = ups[j].id => i = j

\* last write wins per identity, order of first appearance kept
RECURSIVE AccumulateChanges(_, _)
AccumulateChanges(currentChanges, newChanges) ==
    IF newChanges = <<>> THEN currentChanges
    ELSE LET u == Head(newChanges)
             present == \E i \in 1..Len(currentChanges) : currentChanges[i].id = u.id
             merged == IF present
                       THEN [i \in 1..Len(currentChanges) |->
                               IF currentChanges[i].id = u.id THEN u ELSE currentChanges[i]]
                       ELSE Append(currentChanges, u)
         IN AccumulateChanges(merged, Tail(newChanges))

\* bech32 strings of the slash acknowledgement list and their decoding
Bech32Of(v) == <<"cosmosvalcons", v>>
MalformedAck == <<"garbage">>
SlashAckStrings == {Bech32Of(v) : v \in Validators} \cup {MalformedAck}
GetConsAddrFromBech32(ack) ==
    IF Len(ack) = 2 /\ ack[1] = "cosmosvalcons"
    THEN [err |-> FALSE, addr |-> ack[2]]
    ELSE [err |-> TRUE, addr |-> EmptyIdentity]

DeleteOutstandingDowntime(outstanding, consAddr) == outstanding \ {consAddr}
SetOutstandingDowntime(outstanding, consAddr) == outstanding \cup {consAddr}
OutstandingDowntime(outstanding, consAddr) == consAddr \in outstanding

\* the queue entry AppendPendingPacket stores under the next index
NewPendingPacket(idx, type, val, infraction, vscId) ==
    [idx |-> idx, type |-> type, val |-> val, infraction |-> infraction, vscId |-> vscId]
AppendPendingPacket(queue, idx, type, val, infraction, vscId) ==
    Append(queue, NewPendingPacket(idx, type, val, infraction, vscId))

DeletePendingDataPackets(queue, idxs) ==
    SelectSeq(queue, LAMBDA p : p.idx \notin idxs)

DeleteHeadOfPendingPackets(queue) ==
    IF queue = <<>> THEN queue ELSE Tail(queue)

\* slash record
NoSlashRecord == [state |-> Idle, sendTime |-> 0]
ClearSlashRecord(rec) == NoSlashRecord
UpdateSlashRecordOnSend(rec, now) == [state |-> WaitingForReply, sendTime |-> now]
UpdateSlashRecordOnBounce(rec) == [rec EXCEPT !.state = WaitingForBackoffAfterBounce]
BackoffUntil(rec) == rec.sendTime + RetryDelayPeriod
PacketSendingPermitted(rec, now) ==
    \/ rec.state = Idle
    \/ rec.state = WaitingForBackoffAfterBounce /\ now >= BackoffUntil(rec)

\* ---------------------------------------------------------- OnRecvVSCPacket
\* OnUnknownChannel never noticing the foreign channel
OnUnknownChannelIgnored(found, channel, destinationChannel) == FALSE

\* the packet arrived on a channel other than the provider channel
OnUnknownChannel(found, channel, destinationChannel) ==
    found /\ channel # destinationChannel

\* the channel recorded after the binding step
EstablishedChannel(found, channel, destinationChannel) ==
    IF ~found THEN destinationChannel ELSE channel

\* EstablishedEvents emitting the event on every accepted packet
EstablishedEventsEveryPacket(found, ev) ==
    [ev EXCEPT !.established = @ + 1]

\* the channel-established events emitted so far, after the binding step
EstablishedEvents(found, ev) ==
    IF ~found THEN [ev EXCEPT !.established = @ + 1] ELSE ev

\* SetPendingChanges storing the packet's updates alone
SetPendingChangesOverwrite(current, newUpdates) ==
    AccumulateChanges(<<>>, newUpdates)

\* pending changes after accumulating the packet's updates with all prior ones
SetPendingChanges(current, newUpdates) ==
    LET exists == current # <<>>
        currentValUpdates == IF exists THEN current ELSE <<>>
    IN AccumulateChanges(currentValUpdates, newUpdates)

\* RemoveSlashAcks dropping every flag when the list is not empty
RemoveSlashAcksAll(outstanding, slashAcks) ==
    IF slashAcks = <<>> THEN outstanding ELSE {}

\* RemoveSlashAcks leaving the loop at the first malformed address
RECURSIVE RemoveSlashAcksStopAtMalformed(_, _)
RemoveSlashAcksStopAtMalformed(outstanding, slashAcks) ==
    IF slashAcks = <<>> THEN outstanding
    ELSE LET dec == GetConsAddrFromBech32(Head(slashAcks)) IN
         IF dec.err
         THEN outstanding
         ELSE RemoveSlashAcksStopAtMalformed(
                  DeleteOutstandingDowntime(outstanding, dec.addr), Tail(slashAcks))

\* outstanding downtime flags after the loop over the slash acks
RECURSIVE RemoveSlashAcks(_, _)
RemoveSlashAcks(outstanding, slashAcks) ==
    IF slashAcks = <<>> THEN outstanding
    ELSE LET dec == GetConsAddrFromBech32(Head(slashAcks)) IN
         IF dec.err
         THEN RemoveSlashAcks(outstanding, Tail(slashAcks))
         ELSE RemoveSlashAcks(DeleteOutstandingDowntime(outstanding, dec.addr),
                              Tail(slashAcks))

\* history of the accepted batches: order of first appearance, latest power
RECURSIVE SeenAfter(_, _)
SeenAfter(seen, ups) ==
    IF ups = <<>> THEN seen
    ELSE SeenAfter(IF Head(ups).id \in Range(seen) THEN seen ELSE Append(seen, Head(ups).id),
                   Tail(ups))
LatestAfter(latest, ups) ==
    [v \in Validators |->
        IF \E i \in 1..Len(ups) : ups[i].id = v
        THEN ups[CHOOSE i \in 1..Len(ups) : ups[i].id = v].power
        ELSE latest[v]]

\* RecvOutcome without the validation of the packet data
RecvOutcomeNoValidate(packet, newChanges) ==
    IF OnUnknownChannel(providerChannel # NoChannel, providerChannel,
                        packet.DestinationChannel)
    THEN "panic"
    ELSE "ok"

\* how the handler ends: a validation error, the panic, or nil
RecvOutcome(packet, newChanges) ==
    IF ~Validate(newChanges) THEN "errValidate"
    ELSE IF OnUnknownChannel(providerChannel # NoChannel, providerChannel,
                             packet.DestinationChannel)
    THEN "panic"
    ELSE "ok"

\* OnRecvVSCPacket mapping the current height instead of the next one
OnRecvVSCPacketCurrentHeight(packet, newChanges) ==
    LET found == providerChannel # NoChannel IN
    IF RecvOutcome(packet, newChanges) # "ok"
    THEN UNCHANGED vars
    ELSE /\ providerChannel' =
                EstablishedChannel(found, providerChannel, packet.DestinationChannel)
         /\ events' = EstablishedEvents(found, events)
         /\ pendingChanges' = SetPendingChanges(pendingChanges, newChanges.ValidatorUpdates)
         /\ heightToVscId' =
                [heightToVscId EXCEPT ![blockHeight] = newChanges.ValsetUpdateId]
         /\ outstandingDowntime' = RemoveSlashAcks(outstandingDowntime, newChanges.SlashAcks)
         /\ firstSeen' = SeenAfter(firstSeen, newChanges.ValidatorUpdates)
         /\ latestPower' = LatestAfter(latestPower, newChanges.ValidatorUpdates)
         /\ UNCHANGED <<blockHeight, closeInits, queueVars>>

OnRecvVSCPacket(packet, newChanges) ==
    LET found == providerChannel # NoChannel IN
    IF RecvOutcome(packet, newChanges) # "ok"
    THEN UNCHANGED vars
    ELSE /\ providerChannel' =
                EstablishedChannel(found, providerChannel, packet.DestinationChannel)
         /\ events' = EstablishedEvents(found, events)
         /\ pendingChanges' = SetPendingChanges(pendingChanges, newChanges.ValidatorUpdates)
         /\ heightToVscId' =
                [heightToVscId EXCEPT ![blockHeight + 1] = newChanges.ValsetUpdateId]
         /\ outstandingDowntime' = RemoveSlashAcks(outstandingDowntime, newChanges.SlashAcks)
         /\ firstSeen' = SeenAfter(firstSeen, newChanges.ValidatorUpdates)
         /\ latestPower' = LatestAfter(latestPower, newChanges.ValidatorUpdates)
         /\ UNCHANGED <<blockHeight, closeInits, queueVars>>

\* --------------------------------------------------------- QueueSlashPacket
\* DowntimeOutstanding without the early return
DowntimeOutstandingIgnored(downtime, outstanding, consAddr) == FALSE

\* DowntimeOutstanding applied to every kind of infraction
DowntimeOutstandingAnyInfraction(downtime, outstanding, consAddr) ==
    OutstandingDowntime(outstanding, consAddr)

\* an outstanding downtime request is set for the validator
DowntimeOutstanding(downtime, outstanding, consAddr) ==
    downtime /\ OutstandingDowntime(outstanding, consAddr)

\* the outstanding downtime flags after a slash packet was accepted
MarkDowntime(downtime, outstanding, consAddr) ==
    IF downtime THEN SetOutstandingDowntime(outstanding, consAddr) ELSE outstanding

QueueSlashPacket(validator, valsetUpdateID, infraction) ==
    LET consAddr == validator
        downtime == infraction = Downtime
    IN
    IF DowntimeOutstanding(downtime, outstandingDowntime, consAddr)
    THEN UNCHANGED vars
    ELSE /\ outstandingDowntime' = MarkDowntime(downtime, outstandingDowntime, consAddr)
         /\ pendingPackets' = AppendPendingPacket(pendingPackets, pendingPacketsIdx,
                                  SlashPacket, validator, infraction, valsetUpdateID)
         /\ pendingPacketsIdx' = pendingPacketsIdx + 1
         /\ events' = [events EXCEPT !.slashRequest = @ + 1]
         /\ UNCHANGED <<providerChannel, blockHeight, closeInits, accumVars,
                        slashRecord, sentLog, inflight>>

\* enqueueMaturedUpdate: maturity logic appends a matured-update entry
QueueVSCMaturedPacket(valsetUpdateID) ==
    /\ pendingPackets' = AppendPendingPacket(pendingPackets, pendingPacketsIdx,
                             VscMaturedPacket, EmptyIdentity, "none", valsetUpdateID)
    /\ pendingPacketsIdx' = pendingPacketsIdx + 1
    /\ UNCHANGED <<providerChannel, events, outstandingDowntime, blockHeight,
                   closeInits, accumVars, slashRecord, sentLog, inflight>>

\* -------------------------------------------------------------- SendPackets
\* loop state: packets handed to the transport, indices marked for deletion,
\* the slash record, and why the loop ended
LoopStart(rec) == [sent |-> <<>>, del |-> {}, rec |-> rec, stop |-> "exhausted"]

\* OnSendError skipping the refused packet and going on with the next one
OnSendErrorContinue(err, st) ==
    [st EXCEPT !.stop = "continue"]

\* OnSendError returning from the call, past the deletion of the packets sent
OnSendErrorForgetsSent(err, st) ==
    [st EXCEPT !.del = {}, !.stop = "sendFailed"]

\* the transport refused the packet: leave it stored and stop
OnSendError(err, st) ==
    IF err = ErrClientNotActive
    THEN [st EXCEPT !.stop = "clientNotActive"]
    ELSE [st EXCEPT !.stop = "sendFailed"]

\* OnSent never marking a sent packet for deletion
OnSentKeepsMatured(p, st, now) ==
    LET handed == [st EXCEPT !.sent = Append(@, [idx |-> p.idx, type |-> p.type])] IN
    IF p.type = SlashPacket
    THEN [handed EXCEPT !.rec = UpdateSlashRecordOnSend(st.rec, now), !.stop = "slashSent"]
    ELSE [handed EXCEPT !.stop = "continue"]

\* OnSent without the special case for slash packets
OnSentSlashLikeMatured(p, st, now) ==
    [st EXCEPT !.sent = Append(@, [idx |-> p.idx, type |-> p.type]),
               !.del = @ \cup {p.idx}, !.stop = "continue"]

\* OnSent without the break after a slash packet: the packet is marked for deletion
\* like a matured update and the loop goes on
OnSentSlashNoBreak(p, st, now) ==
    LET handed == [st EXCEPT !.sent = Append(@, [idx |-> p.idx, type |-> p.type])] IN
    IF p.type = SlashPacket
    THEN [handed EXCEPT !.rec = UpdateSlashRecordOnSend(st.rec, now),
                        !.del = @ \cup {p.idx}, !.stop = "continue"]
    ELSE [handed EXCEPT !.del = @ \cup {p.idx}, !.stop = "continue"]

\* the transport took the packet
OnSent(p, st, now) ==
    LET handed == [st EXCEPT !.sent = Append(@, [idx |-> p.idx, type |-> p.type])] IN
    IF p.type = SlashPacket
    THEN [handed EXCEPT !.rec = UpdateSlashRecordOnSend(st.rec, now), !.stop = "slashSent"]
    ELSE [handed EXCEPT !.del = @ \cup {p.idx}, !.stop = "continue"]

\* SendOne without asking whether sending is permitted
SendOneUnguarded(p, outcome, st, now) ==
    IF outcome # SendOk
    THEN OnSendError(outcome, st)
    ELSE OnSent(p, st, now)

\* one iteration of the loop for packet p, the transport answering with outcome
SendOne(p, outcome, st, now) ==
    IF ~PacketSendingPermitted(st.rec, now)
    THEN [st EXCEPT !.stop = "notPermitted"]
    ELSE IF outcome # SendOk
    THEN OnSendError(outcome, st)
    ELSE OnSent(p, st, now)

\* the order in which the loop visits the queue
IterationOrder(pending) == pending

RECURSIVE SendLoop(_, _, _, _, _)
SendLoop(i, pending, outcomes, st, now) ==
    IF i > Len(pending) THEN [st EXCEPT !.stop = "exhausted"]
    ELSE LET next == SendOne(pending[i], outcomes[i], st, now) IN
         IF next.stop = "continue"
         THEN SendLoop(i + 1, pending, outcomes, next, now)
         ELSE next

\* what the transport may answer on the channel
TransportOutcomes(channel) ==
    IF channel \in closeInits THEN SendOutcomes \ {SendOk} ELSE SendOutcomes

\* the transport numbers the packets it takes: the k-th packet ever sent has sequence k
Committed(sentBefore, sent) ==
    {[seq |-> sentBefore + k, idx |-> sent[k].idx, type |-> sent[k].type] :
        k \in 1..Len(sent)}

\* SendPackets without the check for an established provider channel
SendPacketsUnbound(outcomes) ==
    LET pending == IterationOrder(pendingPackets)
        st == SendLoop(1, pending, outcomes, LoopStart(slashRecord),
                       BlockTime(blockHeight))
    IN /\ pendingPackets' = DeletePendingDataPackets(pendingPackets, st.del)
       /\ slashRecord' = st.rec
       /\ sentLog' = sentLog \o st.sent
       /\ inflight' = inflight \cup Committed(Len(sentLog), st.sent)
       /\ UNCHANGED <<providerChannel, events, outstandingDowntime, blockHeight,
                      closeInits, accumVars, pendingPacketsIdx>>

SendPackets(outcomes) ==
    IF providerChannel = NoChannel
    THEN UNCHANGED vars
    ELSE LET pending == IterationOrder(pendingPackets)
             st == SendLoop(1, pending, outcomes, LoopStart(slashRecord),
                            BlockTime(blockHeight))
         IN /\ pendingPackets' = DeletePendingDataPackets(pendingPackets, st.del)
            /\ slashRecord' = st.rec
            /\ sentLog' = sentLog \o st.sent
            /\ inflight' = inflight \cup Committed(Len(sentLog), st.sent)
            /\ UNCHANGED <<providerChannel, events, outstandingDowntime, blockHeight,
                           closeInits, accumVars, pendingPacketsIdx>>

\* -------------------------------------------------- OnAcknowledgementPacket
ResultAck(res) == [kind |-> "result", res |-> res]
ErrorAck == [kind |-> "error", res |-> <<>>]

\* OnSlashResult with the bounced result also removing the head of the queue
OnSlashResultBounceDeletes(res, rec, queue) ==
    CASE res = V1Result ->
            [err |-> FALSE, rec |-> ClearSlashRecord(rec),
             queue |-> DeleteHeadOfPendingPackets(queue)]
      [] res = SlashPacketHandledResult ->
            [err |-> FALSE, rec |-> ClearSlashRecord(rec),
             queue |-> DeleteHeadOfPendingPackets(queue)]
      [] res = SlashPacketBouncedResult ->
            [err |-> FALSE, rec |-> UpdateSlashRecordOnBounce(rec),
             queue |-> DeleteHeadOfPendingPackets(queue)]
      [] OTHER ->
            [err |-> TRUE, rec |-> rec, queue |-> queue]

\* OnSlashResult with the bounced result clearing the slash record
OnSlashResultBounceClears(res, rec, queue) ==
    CASE res = V1Result ->
            [err |-> FALSE, rec |-> ClearSlashRecord(rec),
             queue |-> DeleteHeadOfPendingPackets(queue)]
      [] res = SlashPacketHandledResult ->
            [err |-> FALSE, rec |-> ClearSlashRecord(rec),
             queue |-> DeleteHeadOfPendingPackets(queue)]
      [] res = SlashPacketBouncedResult ->
            [err |-> FALSE, rec |-> ClearSlashRecord(rec), queue |-> queue]
      [] OTHER ->
            [err |-> TRUE, rec |-> rec, queue |-> queue]

\* OnSlashResult clearing the slash record without removing the head of the queue
OnSlashResultKeepsHead(res, rec, queue) ==
    CASE res = V1Result ->
            [err |-> FALSE, rec |-> ClearSlashRecord(rec), queue |-> queue]
      [] res = SlashPacketHandledResult ->
            [err |-> FALSE, rec |-> ClearSlashRecord(rec), queue |-> queue]
      [] res = SlashPacketBouncedResult ->
            [err |-> FALSE, rec |-> UpdateSlashRecordOnBounce(rec), queue |-> queue]
      [] OTHER ->
            [err |-> TRUE, rec |-> rec, queue |-> queue]

\* OnSlashResult treating an unrecognized result as handled
OnSlashResultDefaultHandled(res, rec, queue) ==
    CASE res = SlashPacketBouncedResult ->
            [err |-> FALSE, rec |-> UpdateSlashRecordOnBounce(rec), queue |-> queue]
      [] OTHER ->
            [err |-> FALSE, rec |-> ClearSlashRecord(rec),
             queue |-> DeleteHeadOfPendingPackets(queue)]

\* OnSlashResult with the bounced result leaving the slash record as it is
OnSlashResultBounceIgnored(res, rec, queue) ==
    CASE res = V1Result ->
            [err |-> FALSE, rec |-> ClearSlashRecord(rec),
             queue |-> DeleteHeadOfPendingPackets(queue)]
      [] res = SlashPacketHandledResult ->
            [err |-> FALSE, rec |-> ClearSlashRecord(rec),
             queue |-> DeleteHeadOfPendingPackets(queue)]
      [] res = SlashPacketBouncedResult ->
            [err |-> FALSE, rec |-> rec, queue |-> queue]
      [] OTHER ->
            [err |-> TRUE, rec |-> rec, queue |-> queue]

\* the switch on the result byte of a slash packet acknowledgement
OnSlashResult(res, rec, queue) ==
    CASE res = V1Result ->
            [err |-> FALSE, rec |-> ClearSlashRecord(rec),
             queue |-> DeleteHeadOfPendingPackets(queue)]
      [] res = SlashPacketHandledResult ->
            [err |-> FALSE, rec |-> ClearSlashRecord(rec),
             queue |-> DeleteHeadOfPendingPackets(queue)]
      [] res = SlashPacketBouncedResult ->
            [err |-> FALSE, rec |-> UpdateSlashRecordOnBounce(rec), queue |-> queue]
      [] OTHER ->
            [err |-> TRUE, rec |-> rec, queue |-> queue]

\* OnErrorAck returning nil when no provider channel is found
OnErrorAckUnboundOk(sourceChannel, channel, closeFails, closeProviderFails) ==
    IF closeFails
    THEN [out |-> "errChanCloseInit", closed |-> {}]
    ELSE IF channel = NoChannel
    THEN [out |-> "ok", closed |-> {sourceChannel}]
    ELSE IF channel # sourceChannel
    THEN IF closeProviderFails
         THEN [out |-> "errChanCloseInit", closed |-> {sourceChannel}]
         ELSE [out |-> "ok", closed |-> {sourceChannel, channel}]
    ELSE [out |-> "ok", closed |-> {sourceChannel}]

\* the channels closed, and the outcome, on an error acknowledgement
OnErrorAck(sourceChannel, channel, closeFails, closeProviderFails) ==
    IF closeFails
    THEN [out |-> "errChanCloseInit", closed |-> {}]
    ELSE IF channel = NoChannel
    THEN [out |-> "errNoProposerChannelId", closed |-> {sourceChannel}]
    ELSE IF channel # sourceChannel
    THEN IF closeProviderFails
         THEN [out |-> "errChanCloseInit", closed |-> {sourceChannel}]
         ELSE [out |-> "ok", closed |-> {sourceChannel, channel}]
    ELSE [out |-> "ok", closed |-> {sourceChannel}]

\* the transport drops the commitment of a packet whose acknowledgement was processed
Acknowledged(out, packet) ==
    IF out = "ok" THEN {p \in inflight : p.seq # packet.seq} ELSE inflight

\* how the handler ends: "ok" for nil, otherwise the error returned
AckOutcome(packet, ack, closeFails, closeProviderFails) ==
    IF ack.kind = "result"
    THEN IF Len(ack.res) # 1 THEN "errResultLength"
         ELSE IF packet.type = VscMaturedPacket THEN "ok"
         ELSE IF OnSlashResult(ack.res[1], slashRecord, pendingPackets).err
         THEN "errUnrecognizedResult"
         ELSE "ok"
    ELSE OnErrorAck(packet.SourceChannel, providerChannel,
                    closeFails, closeProviderFails).out

\* OnAcknowledgementPacket looking at the result byte before the packet type
OnAcknowledgementPacketAnyType(packet, ack, closeFails, closeProviderFails) ==
    LET out == AckOutcome(packet, ack, closeFails, closeProviderFails) IN
    IF ack.kind = "result"
    THEN IF Len(ack.res) # 1
         THEN UNCHANGED vars
         ELSE LET r == OnSlashResult(ack.res[1], slashRecord, pendingPackets)
              IN /\ slashRecord' = r.rec
                 /\ pendingPackets' = r.queue
                 /\ inflight' = Acknowledged(out, packet)
                 /\ UNCHANGED <<providerChannel, events, outstandingDowntime, blockHeight,
                                closeInits, accumVars, pendingPacketsIdx, sentLog>>
    ELSE LET e == OnErrorAck(packet.SourceChannel, providerChannel,
                             closeFails, closeProviderFails)
         IN /\ closeInits' = closeInits \cup e.closed
            /\ inflight' = Acknowledged(out, packet)
            /\ UNCHANGED <<providerChannel, events, outstandingDowntime, blockHeight,
                           accumVars, pendingPackets, pendingPacketsIdx, slashRecord,
                           sentLog>>

OnAcknowledgementPacket(packet, ack, closeFails, closeProviderFails) ==
    LET out == AckOutcome(packet, ack, closeFails, closeProviderFails) IN
    IF ack.kind = "result"
    THEN IF Len(ack.res) # 1
         THEN UNCHANGED vars
         ELSE IF packet.type = VscMaturedPacket
         THEN /\ inflight' = Acknowledged(out, packet)
              /\ UNCHANGED <<providerChannel, events, outstandingDowntime, blockHeight,
                             closeInits, accumVars, pendingPackets, pendingPacketsIdx,
                             slashRecord, sentLog>>
         ELSE LET r == OnSlashResult(ack.res[1], slashRecord, pendingPackets)
              IN /\ slashRecord' = r.rec
                 /\ pendingPackets' = r.queue
                 /\ inflight' = Acknowledged(out, packet)
                 /\ UNCHANGED <<providerChannel, events, outstandingDowntime, blockHeight,
                                closeInits, accumVars, pendingPacketsIdx, sentLog>>
    ELSE LET e == OnErrorAck(packet.SourceChannel, providerChannel,
                             closeFails, closeProviderFails)
         IN /\ closeInits' = closeInits \cup e.closed
            /\ inflight' = Acknowledged(out, packet)
            /\ UNCHANGED <<providerChannel, events, outstandingDowntime, blockHeight,
                           accumVars, pendingPackets, pendingPacketsIdx, slashRecord,
                           sentLog>>

\* ------------------------------------------------------------- scheduler
\* the next block begins
BeginBlock ==
    /\ blockHeight < MaxHeight
    /\ blockHeight' = blockHeight + 1
    /\ UNCHANGED <<providerChannel, events, outstandingDowntime, closeInits,
                   accumVars, queueVars>>

\* ---------------------------------------------------------------- inputs
VscIds == {1}
SlashAckLists ==
    {<<>>, <<Bech32Of("V1")>>, <<Bech32Of("V2")>>,
     <<MalformedAck, Bech32Of("V1")>>, <<Bech32Of("V1"), MalformedAck>>}
Update(id, power) == [id |-> id, power |-> power]
SlashInputs == {<<"V1", Downtime>>, <<"V2", Downtime>>, <<"V1", DoubleSign>>}
Batch(updates, id, acks) ==
    [ValidatorUpdates |-> updates, ValsetUpdateId |-> id, SlashAcks |-> acks]
RelayBatches ==
    {Batch(<<>>, i, a) : i \in VscIds, a \in SlashAckLists}
    \cup {Batch(<<Update(EmptyIdentity, 10)>>, i, <<Bech32Of("V1")>>) : i \in VscIds}
\* the channels are interchangeable: the first packet arrives on the first of them
ArrivalChannels == IF providerChannel = NoChannel THEN {"channel-0"} ELSE Channels
ResultAcks ==
    {ResultAck(<<r>>) : r \in {V1Result, SlashPacketHandledResult,
                                SlashPacketBouncedResult, UnknownResult}}
    \cup {ResultAck(<<V1Result, V1Result>>)}
\* the transport's answers to the sends of one call, one per queue position: on an
\* open channel every send succeeds but at most one, which is refused
TransportAnswers(n, channel) ==
    IF SendOk \in TransportOutcomes(channel)
    THEN {[i \in 1..n |-> IF i = failAt THEN err ELSE SendOk] :
             failAt \in 1..(n + 1), err \in TransportOutcomes(channel) \ {SendOk}}
    ELSE [1..n -> TransportOutcomes(channel)]
SentPacket(p, channel) ==
    [seq |-> p.seq, idx |-> p.idx, type |-> p.type, SourceChannel |-> channel]

Next ==
    \/ \E ch \in ArrivalChannels, d \in RelayBatches :
            OnRecvVSCPacket([DestinationChannel |-> ch], d)
    \/ \E in \in SlashInputs, id \in VscIds :
            pendingPacketsIdx < MaxPackets /\ QueueSlashPacket(in[1], id, in[2])
    \/ \E id \in VscIds :
            pendingPacketsIdx < MaxPackets /\ QueueVSCMaturedPacket(id)
    \/ \E outcomes \in TransportAnswers(Len(pendingPackets), providerChannel) :
            SendPackets(outcomes)
    \/ \E p \in inflight, ack \in ResultAcks :
            OnAcknowledgementPacket(SentPacket(p, providerChannel), ack, FALSE, FALSE)
    \/ \E p \in inflight, cf \in BOOLEAN :
            OnAcknowledgementPacket(SentPacket(p, providerChannel), ErrorAck, cf, FALSE)
    \/ BeginBlock

Spec == Init /\ [][Next]_vars

\* ---------------------------------------------- accumulator specification
\* the ingest handler alone, on batches of up to two updates
Powers == {10, 15, 20}
AccumVscIds == {1, 2}
AccumUpdates ==
    {<<>>} \cup {<<Update(v, w)>> : v \in Validators \cup {EmptyIdentity}, w \in Powers}
           \cup {<<Update(v1, w1), Update(v2, w2)>> :
                    v1 \in Validators, v2 \in Validators, w1 \in {10, 20}, w2 \in {15, 20}}
AccumBatches ==
    {Batch(u, i, a) : u \in AccumUpdates, i \in AccumVscIds, a \in {<<>>, <<MalformedAck>>}}

NextAccum ==
    \/ \E ch \in ArrivalChannels, d \in AccumBatches :
            OnRecvVSCPacket([DestinationChannel |-> ch], d)
    \/ BeginBlock

SpecAccum == Init /\ [][NextAccum]_vars

\* ------------------------------------- stray acknowledgement specification
\* the queue machine on one kind of batch and one kind of slash request, with error
\* acknowledgements for packets this module did not send, on any channel and
\* whether or not a provider channel is bound
StrayPackets == {[seq |-> 0, idx |-> 0, type |-> t] : t \in {SlashPacket, VscMaturedPacket}}
StrayBatches == {Batch(<<>>, i, <<>>) : i \in VscIds}
StraySlashInputs == {<<"V1", Downtime>>}

NextStray ==
    \/ \E ch \in ArrivalChannels, d \in StrayBatches :
            OnRecvVSCPacket([DestinationChannel |-> ch], d)
    \/ \E in \in StraySlashInputs, id \in VscIds :
            pendingPacketsIdx < MaxPackets /\ QueueSlashPacket(in[1], id, in[2])
    \/ \E id \in VscIds :
            pendingPacketsIdx < MaxPackets /\ QueueVSCMaturedPacket(id)
    \/ \E outcomes \in TransportAnswers(Len(pendingPackets), providerChannel) :
            SendPackets(outcomes)
    \/ \E p \in inflight, ack \in ResultAcks :
            OnAcknowledgementPacket(SentPacket(p, providerChannel), ack, FALSE, FALSE)
    \/ \E p \in inflight \cup StrayPackets, ch \in Channels,
          cf \in BOOLEAN, cpf \in BOOLEAN :
            /\ p \in inflight => ch = providerChannel
            /\ OnAcknowledgementPacket(SentPacket(p, ch), ErrorAck, cf, cpf)
    \/ BeginBlock

SpecStray == Init /\ [][NextStray]_vars

\* ------------------------------------------------- liveness specification
\* the queue machine under the scheduling the block producer and a live remote
\* guarantee: the flush of every block is eventually accepted by the transport of an
\* open channel, packets in flight are eventually acknowledged, the remote bounces
\* only while the clock still advances, and blocks keep coming up to MaxHeight
LiveSlashInputs == {<<"V1", Downtime>>, <<"V1", DoubleSign>>}
LiveResults(now) ==
    {V1Result, SlashPacketHandledResult, UnknownResult}
        \cup (IF now < MaxHeight THEN {SlashPacketBouncedResult} ELSE {})

\* a flush all of whose sends the transport accepts
FlushAccepted ==
    /\ providerChannel \notin closeInits
    /\ SendPackets([i \in 1..Len(pendingPackets) |-> SendOk])

\* the remote's result acknowledgement of a packet in flight
AckInFlight ==
    \E p \in inflight, r \in LiveResults(BlockTime(blockHeight)) :
        OnAcknowledgementPacket(SentPacket(p, providerChannel), ResultAck(<<r>>),
                                FALSE, FALSE)

NextLive ==
    \/ \E ch \in ArrivalChannels, d \in StrayBatches :
            OnRecvVSCPacket([DestinationChannel |-> ch], d)
    \/ \E in \in LiveSlashInputs, id \in VscIds :
            pendingPacketsIdx < MaxPackets /\ QueueSlashPacket(in[1], id, in[2])
    \/ \E id \in VscIds :
            pendingPacketsIdx < MaxPackets /\ QueueVSCMaturedPacket(id)
    \/ \E outcomes \in TransportAnswers(Len(pendingPackets), providerChannel) :
            SendPackets(outcomes)
    \/ AckInFlight
    \/ \E p \in inflight, cf \in BOOLEAN :
            OnAcknowledgementPacket(SentPacket(p, providerChannel), ErrorAck, cf, FALSE)
    \/ BeginBlock

SpecLive ==
    /\ Init
    /\ [][NextLive]_vars
    /\ WF_vars(FlushAccepted)
    /\ WF_vars(AckInFlight)
    /\ WF_vars(BeginBlock)

\* ------------------------------------------------------------------ claims
Flush == \E outcomes \in TransportAnswers(Len(pendingPackets), providerChannel) :
            SendPackets(outcomes)
SlashInFlight == {p \in inflight : p.type = SlashPacket}
QueueIdxs == {pendingPackets[i].idx : i \in 1..Len(pendingPackets)}

\* the head of the queue is a slash entry and the slash record blocks sending
HeadSlashBlocked ==
    /\ pendingPackets # <<>>
    /\ Head(pendingPackets).type = SlashPacket
    /\ \/ slashRecord.state = WaitingForReply
       \/ /\ slashRecord.state = WaitingForBackoffAfterBounce
          /\ BlockTime(blockHeight) < BackoffUntil(slashRecord)

\* C1: while a slash entry heads the queue and the slash record is waiting for the
\* reply, or for a backoff that has not elapsed, SendPackets hands nothing to the
\* transport and leaves the queue as it is; and whenever a slash entry heads the
\* queue, SendPackets hands over at most that entry and removes nothing.
C1_BlockedFlushSendsNothing ==
    /\ [][HeadSlashBlocked =>
            \/ /\ sentLog' = sentLog
               /\ pendingPackets' = pendingPackets
               /\ slashRecord' = slashRecord
            \/ ~Flush]_vars
    /\ [][(pendingPackets # <<>> /\ Head(pendingPackets).type = SlashPacket) =>
            \/ /\ pendingPackets' = pendingPackets
               /\ \/ sentLog' = sentLog
                  \/ sentLog' = Append(sentLog, [idx |-> Head(pendingPackets).idx,
                                                 type |-> SlashPacket])
            \/ ~Flush]_vars

\* C1 witness: slash for V1 (downtime) then a matured update were queued, one flush
\* sent the slash packet only, and the matured update is still queued behind it.
C1_Witness ==
    /\ HeadSlashBlocked
    /\ Len(pendingPackets) = 2
    /\ pendingPackets[1].val = "V1" /\ pendingPackets[1].infraction = Downtime
    /\ pendingPackets[2].type = VscMaturedPacket
    /\ sentLog = <<[idx |-> pendingPackets[1].idx, type |-> SlashPacket]>>

\* C2: at most one slash packet is sent and unacknowledged, it is the entry at the
\* head of the queue, and nothing was sent after it.
C2_OneOutstandingSlashAtHead ==
    /\ Cardinality(SlashInFlight) <= 1
    /\ \A p \in SlashInFlight :
          /\ pendingPackets # <<>>
          /\ Head(pendingPackets).idx = p.idx
          /\ Head(pendingPackets).type = SlashPacket
          /\ p.seq = Len(sentLog)

\* C2 witness: a slash packet is outstanding with another entry queued behind it,
\* after matured updates were sent ahead of it.
C2_Witness ==
    /\ Cardinality(SlashInFlight) = 1
    /\ Len(pendingPackets) >= 2
    /\ Len(sentLog) >= 2

\* the downtime slash entries queued for validator v
DowntimeEntries(v) ==
    {i \in 1..Len(pendingPackets) :
        /\ pendingPackets[i].type = SlashPacket
        /\ pendingPackets[i].infraction = Downtime
        /\ pendingPackets[i].val = v}

\* C3: for every validator the queue holds at most one downtime slash entry
\* (refuted: a slash acknowledgement list naming the validator while its slash
\* packet is still queued clears the flag, and the next downtime is queued too).
C3_OneDowntimeEntryPerValidator ==
    \A v \in Validators : Cardinality(DowntimeEntries(v)) <= 1

\* a slash entry of the queue is missing after the step
Removed(i) == pendingPackets[i].idx \notin {pendingPackets'[j].idx : j \in 1..Len(pendingPackets')}

\* the step is the acknowledgement, with a queued or handled result, of the packet
\* sent for queue entry i
AcceptedAckFor(i) ==
    \E p \in inflight, r \in {V1Result, SlashPacketHandledResult} :
        /\ p.idx = pendingPackets[i].idx
        /\ OnAcknowledgementPacket(SentPacket(p, providerChannel), ResultAck(<<r>>),
                                   FALSE, FALSE)

\* the entries of the queue are in the order of their indices
QueueInIndexOrder ==
    \A i, j \in 1..Len(pendingPackets) :
        i < j => pendingPackets[i].idx < pendingPackets[j].idx

\* C4: a slash entry leaves the queue only by the acknowledgement, with the queued
\* or the handled result, of its own packet; no other step removes it, changes it
\* or moves it relative to the other entries.
C4_SlashLeavesOnlyByAcceptedAck ==
    /\ [][\A i \in 1..Len(pendingPackets) :
            pendingPackets[i].type = SlashPacket =>
                /\ Removed(i) => AcceptedAckFor(i)
                /\ ~Removed(i) => \E j \in 1..Len(pendingPackets') :
                                     pendingPackets'[j] = pendingPackets[i]]_vars
    /\ []QueueInIndexOrder

\* C4 witness: a slash entry was sent, bounced and sent again, and is still queued
\* with another entry behind it.
C4_Witness ==
    /\ Len(pendingPackets) >= 2
    /\ Head(pendingPackets).type = SlashPacket
    /\ Cardinality({k \in 1..Len(sentLog) : sentLog[k].idx = Head(pendingPackets).idx}) >= 2

\* C5: SendPackets hands an entry to the transport only when every entry queued
\* before it has been handed to the transport earlier.
C5_SendsInInsertionOrder ==
    [][\A k \in (Len(sentLog) + 1)..Len(sentLog') :
          \A i \in 1..Len(pendingPackets) :
              pendingPackets[i].idx < sentLog'[k].idx =>
                  \E m \in 1..(k - 1) : sentLog'[m].idx = pendingPackets[i].idx]_vars

\* C5 witness: three entries were sent for the first time in the order they were queued.
C5_Witness ==
    /\ Len(sentLog) >= 3
    /\ \A k \in 1..3 : sentLog[k].idx = k - 1

\* C6: the pending changes hold one entry per identity named by an accepted batch,
\* with the power of the last batch naming it, in the order of first appearance.
C6_AccumulatedInFirstAppearanceOrder ==
    pendingChanges =
        [i \in 1..Len(firstSeen) |-> Update(firstSeen[i], latestPower[firstSeen[i]])]

\* C6 witness: [(V1,10),(V2,20)] then [(V1,15)] were ingested.
C6_Witness ==
    /\ pendingChanges = <<Update("V1", 15), Update("V2", 20)>>
    /\ firstSeen = <<"V1", "V2">>

\* a valid batch arriving on channel ch is being ingested
IngestOn(ch, d) == Validate(d) /\ OnRecvVSCPacket([DestinationChannel |-> ch], d)

\* C7: the first valid ingest binds the channel of its packet and the binding never
\* changes; a valid ingest on another channel panics and can change nothing; a valid
\* ingest on the bound channel succeeds and can change neither the binding nor the
\* events.
C7_BindingSetOnceForeignChannelPanics ==
    /\ [][providerChannel # NoChannel => providerChannel' = providerChannel]_vars
    /\ [][(providerChannel = NoChannel /\ providerChannel' # NoChannel)
            => \E ch \in Channels, d \in RelayBatches :
                   IngestOn(ch, d) /\ providerChannel' = ch]_vars
    /\ [](\A ch \in Channels, d \in RelayBatches :
            (providerChannel # NoChannel /\ Validate(d)) =>
                /\ RecvOutcome([DestinationChannel |-> ch], d) =
                      IF ch # providerChannel THEN "panic" ELSE "ok"
                /\ ~ENABLED (/\ IngestOn(ch, d)
                             /\ IF ch # providerChannel
                                THEN vars' # vars
                                ELSE providerChannel' # providerChannel \/ events' # events))

\* C7 witness: the channel is bound, flags are set and entries are queued, so an
\* ingest on the other channel would have something to change.
C7_Witness ==
    /\ providerChannel = "channel-0"
    /\ events.established = 1
    /\ outstandingDowntime = {"V1"}
    /\ heightToVscId[blockHeight + 1] = 0
    /\ blockHeight = 1

\* C8: a downtime slash for a validator whose flag is set changes nothing; for a
\* validator whose flag is not set it sets the flag, appends one slash entry at the
\* tail and emits one slash request event.
C8_DowntimeEnqueueIdempotent ==
    [][\A v \in Validators, id \in VscIds :
          QueueSlashPacket(v, id, Downtime) =>
              IF v \in outstandingDowntime
              THEN UNCHANGED vars
              ELSE /\ outstandingDowntime' = outstandingDowntime \cup {v}
                   /\ pendingPackets' =
                        Append(pendingPackets,
                               NewPendingPacket(pendingPacketsIdx, SlashPacket, v,
                                                Downtime, id))
                   /\ events'.slashRequest = events.slashRequest + 1
                   /\ events'.established = events.established]_vars

\* C8 witness: one downtime slash for V1 is queued behind another entry, its flag
\* is set and one slash request event was emitted.
C8_Witness ==
    /\ Len(pendingPackets) = 2
    /\ DowntimeEntries("V1") = {2}
    /\ outstandingDowntime = {"V1"}
    /\ events.slashRequest = 1

\* the entries of s, in their order, that are also entries of t
Survivors(s, t) == SelectSeq(s, LAMBDA p : p \in Range(t))

\* C9: a matured update handed to the transport is gone from the queue when the
\* call returns, is never queued again and never sent again, and the call keeps the
\* order of the entries it leaves.
C9_SentMaturedRemovedForGood ==
    /\ [](\A k \in 1..Len(sentLog) :
            sentLog[k].type = VscMaturedPacket =>
                /\ sentLog[k].idx \notin QueueIdxs
                /\ \A m \in 1..Len(sentLog) : sentLog[m].idx = sentLog[k].idx => m = k)
    /\ [][pendingPackets' = Survivors(pendingPackets, pendingPackets') \/ ~Flush]_vars

\* C9 witness: a matured update was sent and removed by a call that left a slash
\* entry and a second matured update in the queue.
C9_Witness ==
    /\ Len(sentLog) = 2
    /\ sentLog[1].type = VscMaturedPacket
    /\ Len(pendingPackets) = 2
    /\ pendingPackets[1].type = SlashPacket
    /\ pendingPackets[2].type = VscMaturedPacket

\* C10: a validator leaves the outstanding downtime set only by an accepted ingest,
\* and an ingest removes only validators its slash acknowledgement list names.
C10_DowntimeClearedOnlyBySlashAck ==
    [][\/ outstandingDowntime \subseteq outstandingDowntime'
       \/ /\ \E ch \in Channels, d \in RelayBatches :
                IngestOn(ch, d) /\ RecvOutcome([DestinationChannel |-> ch], d) = "ok"
          /\ \A ch \in Channels, d \in RelayBatches :
                \/ \A v \in outstandingDowntime \ outstandingDowntime' :
                      Bech32Of(v) \in Range(d.SlashAcks)
                \/ ~IngestOn(ch, d)]_vars

\* C10 witness: the slash packet of V1 was sent, acknowledged and removed from the
\* queue, and the flag of V1 is still set.
C10_Witness ==
    /\ pendingPackets = <<>>
    /\ pendingPacketsIdx = 1
    /\ Len(sentLog) = 1
    /\ sentLog[1].type = SlashPacket
    /\ inflight = {}
    /\ slashRecord.state = Idle
    /\ outstandingDowntime = {"V1"}

\* the acknowledgement, with result byte r, of the in-flight packet p
ResultAckOf(p, r) ==
    OnAcknowledgementPacket(SentPacket(p, providerChannel), ResultAck(<<r>>), FALSE, FALSE)

\* what a flush does while the slash record waits for the backoff after a bounce
AfterBounceFlush(outcomes) ==
    LET now == BlockTime(blockHeight)
        head == Head(pendingPackets)
    IN IF now < BackoffUntil(slashRecord) \/ outcomes[1] # SendOk
       THEN /\ sentLog' = sentLog
            /\ pendingPackets' = pendingPackets
            /\ slashRecord' = slashRecord
       ELSE /\ sentLog' = Append(sentLog, [idx |-> head.idx, type |-> SlashPacket])
            /\ pendingPackets' = pendingPackets
            /\ slashRecord' = [state |-> WaitingForReply, sendTime |-> now]

\* C11: the bounced result for the slash packet in flight leaves the queue as it is,
\* with the slash entry at its head, and moves the slash record to
\* WaitingForBackoffAfterBounce, the backoff running from the time of the send; while
\* the record is in that state a flush before the end of the backoff sends nothing,
\* and a flush at or after it hands the head slash entry, and nothing else, to the
\* transport and moves the record to WaitingForReply.
C11_BounceBacksOffThenResendsHead ==
    /\ [](\A p \in SlashInFlight :
            ~ENABLED (/\ ResultAckOf(p, SlashPacketBouncedResult)
                      /\ ~(/\ pendingPackets' = pendingPackets
                           /\ Head(pendingPackets).idx = p.idx
                           /\ slashRecord'.state = WaitingForBackoffAfterBounce
                           /\ BackoffUntil(slashRecord') =
                                 slashRecord.sendTime + RetryDelayPeriod)))
    /\ [](slashRecord.state = WaitingForBackoffAfterBounce =>
            /\ pendingPackets # <<>>
            /\ Head(pendingPackets).type = SlashPacket
            /\ \A outcomes \in TransportAnswers(Len(pendingPackets), providerChannel) :
                  ~ENABLED (SendPackets(outcomes) /\ ~AfterBounceFlush(outcomes)))

\* C11 witness: the slash packet at the head was sent at time 0, bounced, and sent
\* again once the backoff had elapsed, with another entry still queued behind it.
C11_Witness ==
    /\ Len(pendingPackets) = 2
    /\ sentLog = <<[idx |-> 0, type |-> SlashPacket], [idx |-> 0, type |-> SlashPacket]>>
    /\ slashRecord = [state |-> WaitingForReply, sendTime |-> 1]

\* the result bytes that accept a slash packet
AcceptedResults == {V1Result, SlashPacketHandledResult}

\* a flush can hand the head of the queue to the transport
HeadSendable ==
    ENABLED (/\ Flush
             /\ Len(sentLog') > Len(sentLog)
             /\ sentLog'[Len(sentLog) + 1].idx = Head(pendingPackets).idx)

\* C12: the queued or the handled result for the slash packet in flight returns nil,
\* sets the slash record to Idle and removes the head of the queue, which is the
\* entry of that packet, leaving the other entries in their order; sending is then
\* permitted, and whenever the record is Idle on an open bound channel a flush can
\* send the entry now at the head.
C12_AcceptedAckClearsAndPopsHead ==
    /\ [](\A p \in SlashInFlight, r \in AcceptedResults :
            /\ AckOutcome(SentPacket(p, providerChannel), ResultAck(<<r>>), FALSE, FALSE) = "ok"
            /\ ~ENABLED (/\ ResultAckOf(p, r)
                         /\ ~(/\ slashRecord' = NoSlashRecord
                              /\ Head(pendingPackets).idx = p.idx
                              /\ pendingPackets' = Tail(pendingPackets)
                              /\ PacketSendingPermitted(slashRecord',
                                                        BlockTime(blockHeight')))))
    /\ []((/\ slashRecord.state = Idle
           /\ providerChannel # NoChannel
           /\ providerChannel \notin closeInits
           /\ pendingPackets # <<>>) => HeadSendable)

\* C12 witness: the slash packet of entry 0 was sent and accepted; the record is Idle
\* and the two entries that were queued behind it are now the whole queue.
C12_Witness ==
    /\ sentLog = <<[idx |-> 0, type |-> SlashPacket]>>
    /\ inflight = {}
    /\ slashRecord.state = Idle
    /\ Len(pendingPackets) = 2
    /\ pendingPackets[1].idx = 1
    /\ pendingPackets[2].idx = 2

\* an error acknowledgement for packet p arriving with source channel ch
ErrorAckOf(p, ch, closeFails, closeProviderFails) ==
    OnAcknowledgementPacket(SentPacket(p, ch), ErrorAck, closeFails, closeProviderFails)

\* C13: while no provider channel is bound, an error acknowledgement never returns
\* nil: it returns ErrNoProposerChannelId once the close of the packet's channel
\* went through (the error of that close otherwise), and it can change neither the
\* queue, the slash record, the outstanding downtime flags nor the binding.
C13_ErrorAckUnboundIsInconsistency ==
    [](providerChannel = NoChannel =>
         \A p \in StrayPackets, ch \in Channels, cf \in BOOLEAN, cpf \in BOOLEAN :
            LET out == AckOutcome(SentPacket(p, ch), ErrorAck, cf, cpf) IN
            /\ out # "ok"
            /\ ~cf => out = "errNoProposerChannelId"
            /\ ~ENABLED (/\ ErrorAckOf(p, ch, cf, cpf)
                         /\ ~UNCHANGED <<pendingPackets, pendingPacketsIdx, slashRecord,
                                         outstandingDowntime, providerChannel>>))

\* C13 witness: an error acknowledgement arrived on channel-1 while no channel was
\* bound, two entries were queued and the flag of V1 was set.
C13_Witness ==
    /\ providerChannel = NoChannel
    /\ closeInits = {"channel-1"}
    /\ Len(pendingPackets) = 2
    /\ outstandingDowntime = {"V1"}
    /\ slashRecord = NoSlashRecord

\* C14: with a provider channel bound, an error acknowledgement whose packet has the
\* bound channel as source closes that channel and returns nil, and one whose packet
\* has another source channel returns an error and does not close the bound channel
\* (refuted: lines 354-357 close the bound channel as well and return the result of
\* that close, nil when it goes through).
C14_ErrorAckBoundClosesOnlyOnMatch ==
    [][providerChannel # NoChannel =>
          \A p \in StrayPackets, ch \in Channels :
             \/ IF ch = providerChannel
                THEN /\ AckOutcome(SentPacket(p, ch), ErrorAck, FALSE, FALSE) = "ok"
                     /\ providerChannel \in closeInits'
                ELSE /\ AckOutcome(SentPacket(p, ch), ErrorAck, FALSE, FALSE) # "ok"
                     /\ providerChannel \in closeInits' => providerChannel \in closeInits
             \/ ~ErrorAckOf(p, ch, FALSE, FALSE)]_vars

\* batches that fail validation: an empty identity, a duplicate identity, both
InvalidBatches ==
    {Batch(u, i, a) :
        u \in {<<Update(EmptyIdentity, 10)>>,
               <<Update("V1", 10), Update("V1", 20)>>,
               <<Update("V2", 10), Update(EmptyIdentity, 20)>>},
        i \in VscIds,
        a \in {<<>>, <<Bech32Of("V1")>>}}

\* C15: the ingest of a batch that fails validation returns the validation error and
\* can change nothing, on any channel, bound, foreign or first, and whatever slash
\* acknowledgements the batch carries.
C15_InvalidBatchChangesNothing ==
    [](\A ch \in Channels, d \in InvalidBatches :
          /\ ~Validate(d)
          /\ RecvOutcome([DestinationChannel |-> ch], d) = "errValidate"
          /\ ~ENABLED (/\ OnRecvVSCPacket([DestinationChannel |-> ch], d)
                       /\ vars' # vars))

\* C15 witness: no channel is bound and no event was emitted although batches could
\* arrive, both flags are set and the height has advanced.
C15_Witness ==
    /\ providerChannel = NoChannel
    /\ events.established = 0
    /\ outstandingDowntime = {"V1", "V2"}
    /\ blockHeight = 1
    /\ heightToVscId = [h \in Heights |-> 0]

\* results that are not one byte long, or whose byte is not a known code
BadResultAcks == {ResultAck(<<UnknownResult>>), ResultAck(<<V1Result, V1Result>>),
                  ResultAck(<<UnknownResult, SlashPacketHandledResult>>)}

\* C16: a result acknowledgement for the slash packet in flight whose result is not
\* one byte, or whose byte is none of the three known codes, returns an error and
\* can change nothing; the slash entry stays at the head and keeps blocking.
C16_UnrecognizedResultIsError ==
    [](\A p \in SlashInFlight, ack \in BadResultAcks :
          /\ AckOutcome(SentPacket(p, providerChannel), ack, FALSE, FALSE) =
                IF Len(ack.res) # 1 THEN "errResultLength" ELSE "errUnrecognizedResult"
          /\ ~ENABLED (/\ OnAcknowledgementPacket(SentPacket(p, providerChannel), ack,
                                                  FALSE, FALSE)
                       /\ vars' # vars)
          /\ HeadSlashBlocked
          /\ Head(pendingPackets).idx = p.idx)

\* C16 witness: a slash packet is in flight, sent after the height advanced, with two
\* more entries queued behind it.
C16_Witness ==
    /\ Cardinality(SlashInFlight) = 1
    /\ Len(pendingPackets) = 3
    /\ slashRecord = [state |-> WaitingForReply, sendTime |-> 1]
    /\ Len(sentLog) = 1

\* a batch of the accumulator specification arriving on channel ch is being ingested
AccumIngestOn(ch, d) == OnRecvVSCPacket([DestinationChannel |-> ch], d)

\* C17: the channel-established event has been emitted once when a channel is bound
\* and not at all before; the count changes only in the ingest of a valid batch
\* while no channel is bound, and every such ingest emits it.
C17_EstablishedEventExactlyOnce ==
    /\ [](events.established = IF providerChannel = NoChannel THEN 0 ELSE 1)
    /\ [][events'.established # events.established =>
            /\ providerChannel = NoChannel
            /\ events'.established = events.established + 1
            /\ \E ch \in Channels, d \in AccumBatches :
                  Validate(d) /\ AccumIngestOn(ch, d)]_vars
    /\ [](\A ch \in Channels, d \in AccumBatches :
            Validate(d) =>
               ~ENABLED (/\ AccumIngestOn(ch, d)
                         /\ events'.established #
                               IF providerChannel = NoChannel THEN 1
                               ELSE events.established))

\* C17 witness: batches were accepted at two heights, the second naming a second
\* validator, and one event was emitted.
C17_Witness ==
    /\ events.established = 1
    /\ heightToVscId[1] # 0
    /\ heightToVscId[2] # 0
    /\ Len(pendingChanges) = 2

\* entry i is queued / was handed to the transport
Queued(i) == i \in QueueIdxs
Sent(i) == \E k \in 1..Len(sentLog) : sentLog[k].idx = i

FailsAt(outcomes, k) ==
    /\ outcomes[k] # SendOk
    /\ \A j \in 1..(k - 1) :
          outcomes[j] = SendOk /\ pendingPackets[j].type = VscMaturedPacket
    /\ PacketSendingPermitted(slashRecord, BlockTime(blockHeight))

\* what the call leaves when the send of position k was refused
StoppedAt(k) ==
    /\ pendingPackets' = SubSeq(pendingPackets, k, Len(pendingPackets))
    /\ slashRecord' = slashRecord
    /\ sentLog' = sentLog \o [j \in 1..(k - 1) |->
                                [idx |-> pendingPackets[j].idx, type |-> VscMaturedPacket]]

\* C19: when the transport refuses a send, with ErrClientNotActive or any other
\* error, the call stops there: the refused entry and all entries after it stay
\* queued in their order, the slash record is unchanged, nothing more is handed to
\* the transport, and the matured updates sent before it in the same call are
\* removed.
C19_SendFailureStopsLoop ==
    [](providerChannel # NoChannel =>
         \A outcomes \in TransportAnswers(Len(pendingPackets), providerChannel) :
            \A k \in 1..Len(pendingPackets) :
               FailsAt(outcomes, k) =>
                  ~ENABLED (SendPackets(outcomes) /\ ~StoppedAt(k)))

\* C19 witness: of three matured updates the first was sent and removed and the
\* other two are still queued, nothing else having been sent.
C19_Witness ==
    /\ sentLog = <<[idx |-> 0, type |-> VscMaturedPacket]>>
    /\ Len(pendingPackets) = 2
    /\ \A i \in 1..2 : pendingPackets[i].idx = i /\ pendingPackets[i].type = VscMaturedPacket
    /\ slashRecord = NoSlashRecord
    /\ blockHeight = 0

\* the queue holds every entry ever appended, in the order of insertion
AllRetainedInOrder ==
    /\ Len(pendingPackets) = pendingPacketsIdx
    /\ \A i \in 1..Len(pendingPackets) : pendingPackets[i].idx = i - 1

\* C20: while no provider channel is bound nothing has been sent, a flush can change
\* nothing, and the queue holds every entry appended so far in insertion order; the
\* ingest that binds the channel leaves the queue as it is, and on the bound, open
\* channel a flush can then send the entry at the head, the first one appended.
C20_UnboundFlushIsNoOp ==
    /\ [](providerChannel = NoChannel =>
            /\ sentLog = <<>>
            /\ inflight = {}
            /\ slashRecord = NoSlashRecord
            /\ AllRetainedInOrder
            /\ \A outcomes \in TransportAnswers(Len(pendingPackets), providerChannel) :
                  ~ENABLED (SendPackets(outcomes) /\ vars' # vars))
    /\ [][(providerChannel = NoChannel /\ providerChannel' # NoChannel) =>
             pendingPackets' = pendingPackets]_vars
    /\ []((/\ providerChannel # NoChannel
           /\ providerChannel \notin closeInits
           /\ sentLog = <<>>
           /\ pendingPackets # <<>>) => AllRetainedInOrder /\ HeadSendable)

\* C20 witness: a slash entry and two more entries were appended and a block has
\* passed while no channel is bound.
C20_Witness ==
    /\ providerChannel = NoChannel
    /\ Len(pendingPackets) = 3
    /\ pendingPackets[1].type = SlashPacket
    /\ pendingPackets[2].type = VscMaturedPacket
    /\ blockHeight = 1
    /\ sentLog = <<>>

\* the matured update packets sent and not yet acknowledged
MaturedInFlight == {p \in inflight : p.type = VscMaturedPacket}
OneByteResults == {V1Result, SlashPacketHandledResult, SlashPacketBouncedResult,
                   UnknownResult}

\* C21: a one-byte result acknowledgement for a matured update packet returns nil
\* whatever the byte is and can change nothing the module stores, in particular not
\* the queue and not the slash record; only the transport drops the packet.
C21_MaturedAckChangesNothing ==
    [](\A p \in MaturedInFlight, r \in OneByteResults :
          /\ AckOutcome(SentPacket(p, providerChannel), ResultAck(<<r>>), FALSE, FALSE) = "ok"
          /\ ~ENABLED (/\ ResultAckOf(p, r)
                       /\ ~UNCHANGED <<providerChannel, pendingChanges, heightToVscId,
                                       outstandingDowntime, pendingPackets,
                                       pendingPacketsIdx, slashRecord, blockHeight,
                                       events, sentLog, closeInits, firstSeen,
                                       latestPower>>))

\* C21 witness: a matured update and then a slash packet were sent, the matured
\* update was acknowledged, and the slash entry is at the head waiting for its reply
\* with another entry behind it.
C21_Witness ==
    /\ sentLog = <<[idx |-> 0, type |-> VscMaturedPacket], [idx |-> 1, type |-> SlashPacket]>>
    /\ inflight = {[seq |-> 2, idx |-> 1, type |-> SlashPacket]}
    /\ slashRecord.state = WaitingForReply
    /\ Len(pendingPackets) = 2
    /\ Head(pendingPackets).idx = 1

\* batches whose slash acknowledgement list holds a malformed address, before,
\* after or between well-formed ones, with and without a validator update
MalformedAckBatches ==
    {Batch(u, i, a) :
        u \in {<<>>, <<Update("V2", 10)>>},
        i \in VscIds,
        a \in {<<MalformedAck>>,
               <<MalformedAck, Bech32Of("V1")>>,
               <<Bech32Of("V1"), MalformedAck>>,
               <<Bech32Of("V2"), MalformedAck, Bech32Of("V1")>>}}

\* the validators named by the well-formed addresses of a slash acknowledgement list
WellFormedAcks(acks) == {v \in Validators : Bech32Of(v) \in Range(acks)}

\* the packet of the batch arrives on a channel the handler accepts
AcceptedChannel(ch) == providerChannel = NoChannel \/ providerChannel = ch

\* C22: the ingest of a valid batch whose slash acknowledgement list holds a
\* malformed address returns nil, removes from the outstanding downtime flags
\* exactly the validators named by the well-formed addresses of the list, wherever
\* they stand in it, stores the batch's updates and maps the next height to the
\* batch's update id.
C22_MalformedSlashAckSkipped ==
    [](\A ch \in Channels, d \in MalformedAckBatches :
          AcceptedChannel(ch) =>
             /\ RecvOutcome([DestinationChannel |-> ch], d) = "ok"
             /\ ~ENABLED (/\ OnRecvVSCPacket([DestinationChannel |-> ch], d)
                          /\ ~(/\ outstandingDowntime' =
                                     outstandingDowntime \ WellFormedAcks(d.SlashAcks)
                               /\ pendingChanges = <<>> =>
                                     pendingChanges' = d.ValidatorUpdates
                               /\ heightToVscId'[blockHeight + 1] = d.ValsetUpdateId
                               /\ providerChannel' = ch)))

\* C22 witness: both flags were set and a batch naming V1 was ingested at height 1;
\* the flag of V2 is left and the next height is mapped.
C22_Witness ==
    /\ outstandingDowntime = {"V2"}
    /\ Cardinality(DowntimeEntries("V1")) = 1
    /\ Cardinality(DowntimeEntries("V2")) = 1
    /\ blockHeight = 1
    /\ heightToVscId[2] = 1
    /\ heightToVscId[1] = 0

\* what a slash request for a non-downtime infraction does
AppendedDoubleSign(v, id) ==
    /\ pendingPackets' = Append(pendingPackets,
                                NewPendingPacket(pendingPacketsIdx, SlashPacket, v,
                                                 DoubleSign, id))
    /\ pendingPacketsIdx' = pendingPacketsIdx + 1
    /\ events'.slashRequest = events.slashRequest + 1
    /\ outstandingDowntime' = outstandingDowntime

\* C23: a slash request for a non-downtime infraction always appends a new slash
\* entry at the tail and emits a slash request event, whether or not the validator's
\* downtime flag is set and whether or not the same claim is queued already, and it
\* leaves the outstanding downtime flags as they are.
C23_NonDowntimeAlwaysAppends ==
    [](\A v \in Validators, id \in VscIds :
          /\ ENABLED (QueueSlashPacket(v, id, DoubleSign) /\ AppendedDoubleSign(v, id))
          /\ ~ENABLED (QueueSlashPacket(v, id, DoubleSign) /\ ~AppendedDoubleSign(v, id)))

\* C23 witness: with the downtime flag of V1 set and its downtime claim queued, two
\* identical double-sign claims against V1 were appended behind it.
C23_Witness ==
    /\ outstandingDowntime = {"V1"}
    /\ Len(pendingPackets) = 3
    /\ DowntimeEntries("V1") = {1}
    /\ \A i \in 2..3 : /\ pendingPackets[i].val = "V1"
                       /\ pendingPackets[i].infraction = DoubleSign
                       /\ pendingPackets[i].idx = i - 1
    /\ events.slashRequest = 3

\* C24: the ingest of a valid batch on an accepted channel at height h maps height
\* h + 1 to the batch's update id, whatever was mapped there before, and leaves the
\* mapping of every other height as it is; no height beyond h + 1 is ever mapped.
C24_HeightMappedToUpdateId ==
    /\ [](\A ch \in Channels, d \in AccumBatches :
            (Validate(d) /\ AcceptedChannel(ch)) =>
               /\ ENABLED AccumIngestOn(ch, d)
               /\ ~ENABLED (/\ AccumIngestOn(ch, d)
                            /\ \E h \in Heights :
                                  heightToVscId'[h] #
                                     IF h = blockHeight + 1 THEN d.ValsetUpdateId
                                     ELSE heightToVscId[h]))
    /\ [](\A h \in Heights : h > blockHeight + 1 => heightToVscId[h] = 0)
    /\ [][\A h \in Heights :
            (heightToVscId'[h] # heightToVscId[h]) => h = blockHeight + 1]_vars

\* C24 witness: update id 1 then update id 2 were ingested at height 0, the second
\* replacing the first, and update id 1 at height 1.
C24_Witness ==
    /\ heightToVscId = [h \in Heights |-> IF h = 1 THEN 2 ELSE IF h = 2 THEN 1 ELSE 0]
    /\ blockHeight = 1
    /\ Len(pendingChanges) = 1

\* the head of the queue is the slash entry whose packet was sent last
HeadIsLastSentSlash ==
    /\ pendingPackets # <<>>
    /\ sentLog # <<>>
    /\ Head(pendingPackets).type = SlashPacket
    /\ sentLog[Len(sentLog)] = [idx |-> Head(pendingPackets).idx, type |-> SlashPacket]

\* C25: with every sent packet acknowledged at most once, whenever the slash record
\* is not Idle the queue is not empty and its head is the slash entry that was sent
\* last; the slash packet in flight is the packet of that entry, and its
\* acknowledgement with the queued or the handled result removes that entry and no
\* other.
C25_NonIdleRecordMeansHeadIsSentSlash ==
    /\ [](slashRecord.state # Idle => HeadIsLastSentSlash)
    /\ [](\A p \in SlashInFlight :
            /\ slashRecord.state = WaitingForReply
            /\ p.idx = Head(pendingPackets).idx
            /\ \A r \in AcceptedResults :
                  ~ENABLED (/\ ResultAckOf(p, r)
                            /\ ~(/\ p.idx \notin {pendingPackets'[j].idx :
                                                     j \in 1..Len(pendingPackets')}
                                 /\ Len(pendingPackets') = Len(pendingPackets) - 1
                                 /\ Range(pendingPackets') \subseteq Range(pendingPackets))))

\* C25 witness: the slash entry at the head was bounced after a matured update had
\* been sent ahead of it; the record waits for the backoff and a matured update is
\* queued behind the slash entry.
C25_Witness ==
    /\ slashRecord.state = WaitingForBackoffAfterBounce
    /\ sentLog = <<[idx |-> 0, type |-> VscMaturedPacket], [idx |-> 1, type |-> SlashPacket]>>
    /\ Len(pendingPackets) = 2
    /\ pendingPackets[1].idx = 1
    /\ pendingPackets[2].type = VscMaturedPacket

====
